---- MODULE Spec2Model ----
(***************************************************************************)
(* Model of the entra-chat-connect front end: the authentication router    *)
(* (Index), and the chat view (ChatPage) with its sendMessage /            *)
(* acquireToken cycle.                                                     *)
(*                                                                         *)
(* Strings are sequences of one-character strings, so that trim() and the  *)
(* template literal of the status code are computed, not assumed.          *)
(*                                                                         *)
(* Granularity.  JavaScript runs one task at a time: a handler runs up to  *)
(* its first pending promise, and the continuation of a settled promise    *)
(* runs (with every microtask it queues) before the next user event.  One  *)
(* action of the model is therefore one such run: the click/Enter handler  *)
(* up to the first library or network call, or the continuation that       *)
(* follows the settlement of acquireTokenSilent, acquireTokenPopup, fetch  *)
(* or response.json().  The order of the calls inside one run is kept in   *)
(* the attempt's trace.                                                    *)
(*                                                                         *)
(* Environment.  The identity library and the backend are not part of the  *)
(* repository: the interaction status and the account list that its hooks  *)
(* return, and how the library and network calls settle, are inputs,       *)
(* chosen freely among the outcomes the source distinguishes.              *)
(*                                                                         *)
(* Closures.  sendMessage is re-created by useCallback whenever input,     *)
(* isLoading, error or acquireToken change, so the handler that an event   *)
(* invokes reads the current state; but the body that is suspended at an   *)
(* await keeps the values captured when it was invoked (trimmedInput and   *)
(* the `error` constant of that render).                                   *)
(***************************************************************************)
EXTENDS Integers, Sequences, FiniteSets, TLC

\* ---------------------------------------------------------------- bounds
MaxSends == 2     \* accepted sends per mounted chat view

\* ---------------------------------------------------------------- strings
Whitespace == {" ", "\n"}

\* what the user may have typed into the input field
Texts == {<<>>, <<" ", "\n">>, <<"a">>, <<" ", "a", "\n">>, <<"a", " ", "b">>}

RECURSIVE TrimStart(_)
TrimStart(s) ==
    IF s # <<>> /\ Head(s) \in Whitespace THEN TrimStart(Tail(s)) ELSE s

RECURSIVE TrimEnd(_)
TrimEnd(s) ==
    IF s # <<>> /\ s[Len(s)] \in Whitespace
    THEN TrimEnd(SubSeq(s, 1, Len(s) - 1))
    ELSE s

\* String.prototype.trim
Trim(s) == TrimEnd(TrimStart(s))

DigitChar == <<"0", "1", "2", "3", "4", "5", "6", "7", "8", "9">>

\* decimal rendering of a number inside a template literal
RECURSIVE Digits(_)
Digits(k) ==
    IF k < 10 THEN <<DigitChar[k + 1]>>
    ELSE Digits(k \div 10) \o <<DigitChar[(k % 10) + 1]>>

\* ---------------------------------------------------------------- errors
Null == [type |-> "none", message |-> <<>>]

AuthFailedError ==
    [type |-> "auth", message |-> <<"Authentication failed. Please sign in again.">>]
SessionExpiredError ==
    [type |-> "auth", message |-> <<"Session expired. Please sign in again.">>]
AccessDeniedError ==
    [type |-> "auth",
     message |-> <<"Access denied. You don't have permission to use this service.">>]
ServerError ==
    [type |-> "server", message |-> <<"Server error. Please try again later.">>]
RequestFailedError(status) ==
    [type |-> "server", message |-> <<"Request failed with status ">> \o Digits(status)]
NetworkError ==
    [type |-> "network", message |-> <<"Network error. Please check your connection.">>]

\* ---------------------------------------------------------------- environment
\* values of InteractionStatus reported by the identity library
InteractionStatus == {"none", "startup", "login", "acquireToken"}

\* account lists of the identity library
AccountLists == {<<>>, <<"alice">>}

\* how acquireTokenSilent / acquireTokenPopup settle: a result with an id token,
\* a result whose idToken is empty, InteractionRequiredAuthError, another error
SilentOutcomes == {"token", "empty", "interaction_required", "other_error"}
PopupOutcomes == {"token", "empty", "error"}

\* how fetch settles: rejected, or a response with a status
Statuses == {200, 401, 403, 418, 500, 503}
FetchOutcomes == {0} \cup Statuses
Rejected(r) == r = 0

\* Response.ok
Ok(status) == status >= 200 /\ status <= 299

\* how response.json() settles: rejected (unparsable), JSON null, an object
\* without a reply field, an object with a reply field
Undefined == <<"undefined">>
Replies == {<<"a">>, <<"h", "i">>}
Bodies == [kind : {"unparsable", "null", "noreply"}, reply : {Undefined}]
            \cup [kind : {"object"}, reply : Replies]


\* ---------------------------------------------------------------- state
VARIABLES
    inProgress,       \* useMsal().inProgress
    accounts,         \* useMsal().accounts
    view,             \* what Index rendered last: "loading", "chat", "login"
    messages,         \* ChatPage state: the transcript
    input,            \* ChatPage state: the input text
    isLoading,        \* ChatPage state: the in-flight flag
    error,            \* ChatPage state: Null or a ChatError
    n,                \* sends accepted by the mounted chat view (message ids)
    att,              \* the sendMessage invocations suspended at an await
    last              \* history: the handler that ran last, and its attempt

vars == <<inProgress, accounts, view, messages, input, isLoading, error, n, att,
          last>>

chat == <<messages, input, isLoading, error>>
router == <<inProgress, accounts, view>>

\* useIsAuthenticated(): some account is signed in
IsAuthenticated(accs) == accs # <<>>

\* line 40: accounts[0], "undefined" for an empty list
ActiveAccount(accs) == IF accs = <<>> THEN "undefined" ELSE accs[1]

\* ---------------------------------------------------------------- Index
\* a slip: the account is tested before the interaction status
IndexViewAccountFirst(ip, auth) ==
    IF auth THEN "chat"
    ELSE IF ip # "none" THEN "loading" ELSE "login"

\* the view Index returns for a status
IndexView(ip, auth) ==
    IF ip # "none" THEN "loading"
    ELSE IF auth THEN "chat" ELSE "login"

\* ---------------------------------------------------------------- ChatPage
\* one invocation of sendMessage: what it captured, what it called, what came back
NoAtt ==
    [pc |-> "none", raw |-> <<>>, text |-> <<>>, closErr |-> Null, silent |-> "not_called",
     popup |-> "not_called", fetch |-> -1, body |-> "none", reply |-> Undefined,
     trace |-> <<>>, outcome |-> "none"]

\* a slip: the raw input is used
TrimmedInputRaw(inp) == inp

\* line 92: const trimmedInput = input.trim()
TrimmedInput(inp) == Trim(inp)

\* a slip: the guard tests the raw input
SendGuardNoTrim(inp, loading) == inp = <<>> \/ loading

\* a slip: the guard does not test isLoading
SendGuardNoLoading(inp, loading) == TrimmedInput(inp) = <<>>

\* line 93: the early return of sendMessage
SendGuard(inp, loading) == TrimmedInput(inp) = <<>> \/ loading

\* a slip: the new message is put in front of the transcript
AddMessageInFront(prev, m) == <<m>> \o prev

\* lines 105 and 164: setMessages((prev) => [...prev, m])
AddMessage(prev, m) == Append(prev, m)

\* lines 99-104
UserMessage(i, text) == [id |-> <<i, "user">>, role |-> "user", content |-> text]

\* a slip: the content is read from another field of the body
AssistantMessageWrongField(i, reply) ==
    [id |-> <<i, "assistant">>, role |-> "assistant", content |-> Undefined]

\* lines 158-163
AssistantMessage(i, reply) ==
    [id |-> <<i, "assistant">>, role |-> "assistant", content |-> reply]

\* lines 95-106: the calls sendMessage makes before it awaits acquireToken
AcceptTrace ==
    <<"setError(null)", "setInput", "append_user", "setIsLoading(true)", "acquireToken">>

\* a slip: every silent failure opens the popup
NeedsPopupAnyError(r) == r \in {"interaction_required", "other_error"}

\* line 70: the silent failure after which acquireToken opens the popup
NeedsPopup(r) == r = "interaction_required"

\* line 111: `!token` for a settled acquireTokenSilent / acquireTokenPopup result
HasToken(r) == r = "token"

\* a slip: the case for 403 is missing
StatusErrorNo403(status) ==
    CASE status = 401 -> SessionExpiredError
      [] status = 500 -> ServerError
      [] OTHER -> RequestFailedError(status)

\* lines 127-151: the error recorded for a response that is not ok
StatusError(status) ==
    CASE status = 401 -> SessionExpiredError
      [] status = 403 -> AccessDeniedError
      [] status = 500 -> ServerError
      [] OTHER -> RequestFailedError(status)

\* lines 165-172: the catch block; closErr is the `error` constant of the render
\* whose sendMessage is running, cur is the error state when the catch runs
CatchError(closErr, cur) == IF closErr = Null THEN NetworkError ELSE cur

\* a slip: the flag is cleared on the success path only
FinallyLoadingOnSuccess(outcome) == outcome # "success"

\* lines 173-174: the finally block
FinallyLoading(outcome) == FALSE

Fresh ==
    /\ messages = <<>>
    /\ input = <<>>
    /\ isLoading = FALSE
    /\ error = Null
    /\ n = 0
    /\ att = [i \in 1..MaxSends |-> NoAtt]

Init ==
    /\ inProgress \in InteractionStatus
    /\ accounts \in AccountLists
    /\ view = IndexView(inProgress, IsAuthenticated(accounts))
    /\ Fresh
    /\ last = [op |-> "init", id |-> 0, a |-> NoAtt]


Active == {i \in 1..MaxSends : att[i].pc # "none"}

Step(op, i, a) == [op |-> op, id |-> i, a |-> a]

\* sendMessage i leaves through its finally block (lines 173-176) with the
\* transcript msgs and the error err
Finish(i, a, outcome, msgs, err) ==
    LET done == [a EXCEPT !.pc = "done", !.outcome = outcome,
                          !.trace = @ \o <<"setIsLoading(false)">>]
    IN  /\ messages' = msgs
        /\ error' = err
        /\ isLoading' = FinallyLoading(outcome)
        /\ att' = [att EXCEPT ![i] = NoAtt]
        /\ last' = [op |-> "complete", id |-> i, a |-> done]

\* lines 111-113 and 165-172: no token, so sendMessage throws before fetch; cur
\* is the error state that acquireToken left
NoToken(i, a, cur) ==
    Finish(i, [a EXCEPT !.trace = @ \o <<"throw">>], "exception", messages,
           CatchError(a.closErr, cur))

\* lines 116-123: fetch is called with the token
CallFetch(i, a) ==
    /\ att' = [att EXCEPT ![i] = [a EXCEPT !.pc = "fetch", !.trace = @ \o <<"fetch">>]]
    /\ last' = Step("await", i, att'[i])
    /\ UNCHANGED chat

\* onChange of the input field (line 306)
SetInput(text) ==
    /\ view = "chat"
    /\ input' = text
    /\ last' = Step("setInput", 0, NoAtt)
    /\ UNCHANGED <<router, messages, isLoading, error, n, att>>

\* sendMessage, from the click or the Enter key, up to `await acquireToken()`
\* (lines 91-110), and acquireToken up to acquireTokenSilent (lines 58-66)
Submit ==
    /\ view = "chat"
    /\ UNCHANGED router
    /\ IF SendGuard(input, isLoading)
       THEN /\ last' = Step("reject", 0, NoAtt)
            /\ UNCHANGED <<chat, n, att>>
       ELSE /\ n < MaxSends
            /\ n' = n + 1
            /\ input' = <<>>
            /\ LET i == n + 1
                   a == [NoAtt EXCEPT !.raw = input, !.text = TrimmedInput(input),
                                      !.closErr = error,
                                      !.trace = AcceptTrace]
                   msgs == AddMessage(messages, UserMessage(i, a.text))
               IN  IF ActiveAccount(accounts) # "undefined"
                   THEN /\ messages' = msgs
                        /\ error' = Null
                        /\ isLoading' = TRUE
                        /\ att' = [att EXCEPT ![i] =
                                     [a EXCEPT !.pc = "silent", !.silent = "pending",
                                               !.trace = @ \o <<"acquireTokenSilent">>]]
                        /\ last' = Step("accept", i, att'[i])
                   ELSE \* line 59: acquireToken returns null at once
                        Finish(i, [a EXCEPT !.trace = @ \o <<"throw">>], "exception",
                               msgs, CatchError(a.closErr, Null))

\* acquireTokenSilent settles (lines 63-85), then sendMessage goes on
SilentSettle(i, r) ==
    /\ att[i].pc = "silent"
    /\ UNCHANGED <<router, input, n>>
    /\ LET a == [att[i] EXCEPT !.silent = r]
       IN  CASE HasToken(r) -> CallFetch(i, a)
             [] r = "empty" -> NoToken(i, a, error)
             [] r \notin {"token", "empty"} /\ NeedsPopup(r) ->
                    /\ att' = [att EXCEPT ![i] =
                                 [a EXCEPT !.pc = "popup", !.popup = "pending",
                                           !.trace = @ \o <<"acquireTokenPopup">>]]
                    /\ last' = Step("await", i, att'[i])
                    /\ UNCHANGED chat
             [] OTHER -> NoToken(i, a, error)

\* acquireTokenPopup settles (lines 72-81), then sendMessage goes on
PopupSettle(i, r) ==
    /\ att[i].pc = "popup"
    /\ UNCHANGED <<router, input, n>>
    /\ LET a == [att[i] EXCEPT !.popup = r]
       IN  CASE HasToken(r) -> CallFetch(i, a)
             [] r = "empty" -> NoToken(i, a, error)
             [] OTHER ->
                    NoToken(i, [a EXCEPT !.trace = @ \o <<"setError(auth)">>],
                            AuthFailedError)

\* fetch settles (lines 116-155)
FetchSettle(i, r) ==
    /\ att[i].pc = "fetch"
    /\ UNCHANGED <<router, input, n>>
    /\ LET a == [att[i] EXCEPT !.fetch = r]
       IN  CASE Rejected(r) ->
                    Finish(i, [a EXCEPT !.trace = @ \o <<"throw">>], "exception",
                           messages, CatchError(a.closErr, error))
             [] ~Rejected(r) /\ ~Ok(r) ->
                    Finish(i, [a EXCEPT !.trace = @ \o <<"setError(status)">>],
                           "http_error", messages, StatusError(r))
             [] OTHER ->
                    /\ att' = [att EXCEPT ![i] =
                                 [a EXCEPT !.pc = "json", !.trace = @ \o <<"json">>]]
                    /\ last' = Step("await", i, att'[i])
                    /\ UNCHANGED chat

\* response.json() settles (lines 155-164)
JsonSettle(i, b) ==
    /\ att[i].pc = "json"
    /\ UNCHANGED <<router, input, n>>
    /\ LET a == [att[i] EXCEPT !.body = b.kind, !.reply = b.reply]
       IN  IF b.kind \in {"unparsable", "null"}
           THEN Finish(i, [a EXCEPT !.trace = @ \o <<"throw">>], "exception",
                       messages, CatchError(a.closErr, error))
           ELSE Finish(i, [a EXCEPT !.trace = @ \o <<"append_assistant">>], "success",
                       AddMessage(messages, AssistantMessage(i, b.reply)), error)

\* the identity library reports another status or account list: Index renders
\* again (lines 17-37); a ChatPage that is mounted anew starts from its initial
\* state, and what a ChatPage that was unmounted still awaits no longer reaches
\* the view
StatusChange(ip, accs) ==
    /\ <<ip, accs>> # <<inProgress, accounts>>
    /\ inProgress' = ip
    /\ accounts' = accs
    /\ view' = IndexView(ip, IsAuthenticated(accs))
    /\ last' = Step("status", 0, NoAtt)
    /\ IF view = "chat" /\ view' = "chat"
       THEN UNCHANGED <<chat, n, att>>
       ELSE /\ messages' = <<>>
            /\ input' = <<>>
            /\ isLoading' = FALSE
            /\ error' = Null
            /\ n' = 0
            /\ att' = [i \in 1..MaxSends |-> NoAtt]

\* Index renders again with the same status
Rerender ==
    /\ view' = IndexView(inProgress, IsAuthenticated(accounts))
    /\ last' = Step("render", 0, NoAtt)
    /\ UNCHANGED <<inProgress, accounts, chat, n, att>>

Next ==
    \/ \E text \in Texts : SetInput(text)
    \/ Submit
    \/ \E i \in 1..MaxSends, r \in SilentOutcomes : SilentSettle(i, r)
    \/ \E i \in 1..MaxSends, r \in PopupOutcomes : PopupSettle(i, r)
    \/ \E i \in 1..MaxSends, r \in FetchOutcomes : FetchSettle(i, r)
    \/ \E i \in 1..MaxSends, b \in Bodies : JsonSettle(i, b)
    \/ \E ip \in InteractionStatus, accs \in AccountLists : StatusChange(ip, accs)
    \/ Rerender

Spec == Init /\ [][Next]_vars


\* the token and HTTP operations of an attempt settle, and the event loop then
\* runs the continuation
Fairness ==
    /\ WF_vars(\E i \in 1..MaxSends, r \in SilentOutcomes : SilentSettle(i, r))
    /\ WF_vars(\E i \in 1..MaxSends, r \in PopupOutcomes : PopupSettle(i, r))
    /\ WF_vars(\E i \in 1..MaxSends, r \in FetchOutcomes : FetchSettle(i, r))
    /\ WF_vars(\E i \in 1..MaxSends, b \in Bodies : JsonSettle(i, b))

LiveSpec == Init /\ [][Next]_vars /\ Fairness

\* ---------------------------------------------------------------- properties
Has(t, e) == \E k \in 1..Len(t) : t[k] = e
Count(t, e) == Cardinality({k \in 1..Len(t) : t[k] = e})
First(t, e) == CHOOSE k \in 1..Len(t) : t[k] = e /\ \A j \in 1..(k - 1) : t[j] # e
Contains(s, sub) ==
    \E k \in 0..(Len(s) - Len(sub)) : SubSeq(s, k + 1, k + Len(sub)) = sub

\* the send attempts the state knows: those suspended, and the one that just ran
Records == {att[i] : i \in Active} \cup (IF last.a.pc = "none" THEN {} ELSE {last.a})

Completed == last.op = "complete"

TokenCalls == {"acquireToken", "acquireTokenSilent", "acquireTokenPopup"}

\* the three ways the attempt that just completed got no token
NoTokenCase(a) ==
    \/ a.silent = "not_called"
    \/ a.silent = "other_error"
    \/ a.silent = "interaction_required" /\ a.popup = "error"

\* C1: when token acquisition yields no token (no active account, a silent
\* failure other than interaction-required, or a failed popup), the attempt
\* issues no HTTP request and ends with an error of type "auth".
C1_NoTokenAuthError ==
    Completed /\ NoTokenCase(last.a) =>
        /\ ~Has(last.a.trace, "fetch")
        /\ error.type = "auth"


UserCount(msgs) == Cardinality({k \in 1..Len(msgs) : msgs[k].role = "user"})

\* C2: a submission with a non-empty trimmed input, made while no send is in
\* flight, appends exactly one user-role message carrying the trimmed text, and
\* does so before any token acquisition call or HTTP request of that attempt;
\* no other step adds a user-role message.
C2_UserMessageFirst ==
    [][IF Submit /\ Trim(input) # <<>> /\ Active = {}
       THEN /\ Len(messages') = Len(messages) + 1
            /\ SubSeq(messages', 1, Len(messages)) = messages
            /\ messages'[Len(messages')].role = "user"
            /\ messages'[Len(messages')].content = Trim(input)
            /\ LET t == last'.a.trace
               IN  /\ Count(t, "append_user") = 1
                   /\ \A k \in 1..Len(t) :
                          t[k] \in TokenCalls \cup {"fetch"} => First(t, "append_user") < k
       ELSE UserCount(messages') <= UserCount(messages)]_vars

\* C2 witness: an input with surrounding whitespace was accepted and its
\* trimmed text is the content of the user message
C2_Witness ==
    /\ last.op = "accept"
    /\ last.a.raw = <<" ", "a", "\n">>
    /\ messages # <<>>
    /\ messages[Len(messages)] = [id |-> <<last.id, "user">>, role |-> "user",
                                  content |-> <<"a">>]
    /\ Has(last.a.trace, "acquireTokenSilent")

\* C3: a submission whose input is empty or whitespace-only, or that is made
\* between the acceptance of a send and its completion, changes neither the
\* transcript, the input, the error nor the in-flight flag, and starts no token
\* acquisition and no HTTP request.
C3_RejectedSubmitNoEffect ==
    [][Submit /\ (Trim(input) = <<>> \/ Active # {}) =>
           /\ UNCHANGED <<messages, input, error, isLoading, att, n>>
           /\ last'.a = NoAtt]_vars

\* C3 witness: a submission was rejected while a send was in flight although the
\* input was not empty
C3_Witness ==
    /\ last.op = "reject"
    /\ Active # {}
    /\ Trim(input) # <<>>

\* C4: at most one send attempt is in progress at a time.
C4_SingleFlight == Cardinality(Active) <= 1

\* C4 witness: a second attempt is in progress after the first has completed
C4_Witness ==
    /\ n = 2
    /\ Active = {2}
    /\ att[2].pc = "fetch"

\* the decimal text of the status codes that have no case of their own
CodeText(status) ==
    CASE status = 418 -> <<"4", "1", "8">>
      [] status = 503 -> <<"5", "0", "3">>
      [] OTHER -> <<"?">>

HttpFailed(a) == a.fetch > 0 /\ ~(a.fetch >= 200 /\ a.fetch <= 299)

\* C5: for a response with a non-success status the error recorded at the end of
\* the attempt is decided by the status alone: 401 and 403 give the two
\* authentication-class errors, 500 the generic server-class error, any other
\* status a server-class error whose message contains the status code; no
\* assistant message is appended.
C5_StatusDecidesError ==
    Completed /\ HttpFailed(last.a) =>
        /\ last.a.fetch = 401 =>
               /\ error.type = "auth"
               /\ error.message = <<"Session expired. Please sign in again.">>
        /\ last.a.fetch = 403 =>
               /\ error.type = "auth"
               /\ error.message =
                      <<"Access denied. You don't have permission to use this service.">>
        /\ last.a.fetch = 500 =>
               /\ error.type = "server"
               /\ error.message = <<"Server error. Please try again later.">>
        /\ last.a.fetch \notin {401, 403, 500} =>
               /\ error.type = "server"
               /\ Contains(error.message, CodeText(last.a.fetch))
        /\ \A k \in 1..Len(messages) : messages[k].id # <<last.id, "assistant">>
        /\ messages[Len(messages)].role = "user"

\* C5 witness: an unmapped status ended an attempt that started with an error
\* left over from the attempt before
C5_Witness ==
    /\ Completed
    /\ last.a.fetch = 418
    /\ last.a.closErr # Null


\* C6: for a success status and a JSON body with a reply field, exactly one
\* assistant-role message whose content is that reply is appended after the
\* user message of the attempt, no error is recorded, and the in-flight flag is
\* false when the attempt completes.
C6_ReplyAppended ==
    Completed /\ last.a.body = "object" =>
        /\ last.a.fetch >= 200 /\ last.a.fetch <= 299
        /\ messages[Len(messages)] =
               [id |-> <<last.id, "assistant">>, role |-> "assistant",
                content |-> last.a.reply]
        /\ Cardinality({k \in 1..Len(messages) :
                           messages[k].role = "assistant" /\ messages[k].id[1] = last.id}) = 1
        /\ \E j \in 1..(Len(messages) - 1) :
               messages[j] = [id |-> <<last.id, "user">>, role |-> "user",
                              content |-> last.a.text]
        /\ error = Null
        /\ ~isLoading

\* C6 witness: the reply "hi" arrived for the second send of the view
C6_Witness ==
    /\ Completed
    /\ last.id = 2
    /\ last.a.body = "object"
    /\ last.a.reply = <<"h", "i">>

\* C7: every accepted send whose token and HTTP operations settle reaches a
\* state where it has left sendMessage and the in-flight flag is false,
\* whichever path it took.
C7_LoadingCleared ==
    \A i \in 1..MaxSends : (att[i].pc # "none") ~> (att[i].pc = "none" /\ ~isLoading)

\* C7 witness: after a send that failed, a further submission was accepted
C7_Witness ==
    /\ last.op = "accept"
    /\ last.id = 2
    /\ last.a.closErr # Null
    /\ isLoading

\* C8: acquireToken calls acquireTokenSilent before anything else; the popup is
\* opened only after the silent call failed with interaction-required; a failed
\* popup records the authentication error and yields no token; any other silent
\* failure yields no token, opens no popup and records no error.
C8_SilentThenPopup ==
    /\ \A a \in Records :
        /\ \A k \in 1..Len(a.trace) :
               a.trace[k] \in {"acquireTokenPopup", "fetch"} =>
                   /\ Has(a.trace, "acquireTokenSilent")
                   /\ First(a.trace, "acquireTokenSilent") < k
        /\ Has(a.trace, "acquireTokenPopup") => a.silent = "interaction_required"
        /\ a.popup = "error" =>
               Has(a.trace, "setError(auth)") /\ ~Has(a.trace, "fetch")
        /\ a.silent = "other_error" =>
               /\ a.popup = "not_called"
               /\ ~Has(a.trace, "acquireTokenPopup")
               /\ ~Has(a.trace, "setError(auth)")
               /\ ~Has(a.trace, "fetch")
    /\ Completed /\ last.a.closErr # Null =>
        /\ last.a.popup = "error" =>
               error = [type |-> "auth",
                        message |-> <<"Authentication failed. Please sign in again.">>]
        /\ last.a.silent = "other_error" => error = Null

\* C8 witness: the popup that followed an interaction-required failure failed too
C8_Witness ==
    /\ Completed
    /\ last.a.silent = "interaction_required"
    /\ last.a.popup = "error"
    /\ last.a.closErr # Null
    /\ error.type = "auth"

\* C9: the view Index renders is decided by the status alone: the loading
\* indicator while an interaction is in progress, whether or not an account is
\* authenticated, else the chat view if an account is authenticated, else the
\* login view; rendering again with the same status changes nothing.
C9_ViewOfStatus ==
    /\ [](/\ inProgress # "none" => view = "loading"
          /\ inProgress = "none" /\ accounts # <<>> => view = "chat"
          /\ inProgress = "none" /\ accounts = <<>> => view = "login")
    /\ [][Rerender => view' = view /\ UNCHANGED <<chat, n, att>>]_vars

\* C9 witness: Index rendered again while an interaction was in progress for an
\* authenticated account
C9_Witness ==
    /\ last.op = "render"
    /\ inProgress = "login"
    /\ accounts # <<>>
    /\ view = "loading"

\* C10: when an attempt ends by an exception, the recorded error depends on this
\* attempt only: the authentication error set by the failed popup is kept, and
\* otherwise a network-class error is recorded.
C10_ErrorOfThisAttempt ==
    Completed /\ last.a.outcome = "exception" =>
        IF Has(last.a.trace, "setError(auth)")
        THEN error = AuthFailedError
        ELSE error.type = "network"


IsPrefix(s, t) == Len(s) <= Len(t) /\ SubSeq(t, 1, Len(s)) = s

\* C11: while a chat view stays mounted its transcript only grows at the end:
\* the transcript before a step is a prefix of the transcript after it, so no
\* message of an earlier attempt, failed or not, is removed or changed; and an
\* assistant message stands directly after the user message of its own attempt,
\* so the transcript neither starts with an assistant message nor holds two in
\* a row.
C11_AppendOnlyTranscript ==
    /\ [][view = "chat" /\ view' = "chat" =>
              /\ IsPrefix(messages, messages')
              /\ Len(messages') <= Len(messages) + 1]_vars
    /\ [](\A k \in 1..Len(messages) :
              messages[k].role = "assistant" =>
                  /\ k > 1
                  /\ messages[k - 1].role = "user"
                  /\ messages[k - 1].id[1] = messages[k].id[1])

\* C11 witness: the user message of a failed first attempt is still in the
\* transcript when the reply to the second attempt has been appended
C11_Witness ==
    /\ Completed
    /\ last.id = 2
    /\ Len(messages) = 3
    /\ messages[1].id = <<1, "user">>
    /\ messages[2].id = <<2, "user">>
    /\ messages[3].id = <<2, "assistant">>
    /\ last.a.closErr # Null

====
